---- MODULE Spec2Model ----
(***************************************************************************)
(* A model of the Auto-Subtitle-Generator: the translator module           *)
(* (src/models/translator.py: model registry, transcription, translation,  *)
(* SRT serialisation, subtitle embedding, cleanup) and the web module      *)
(* (src/app.py: upload endpoint and the demo orchestrator).                *)
(*                                                                         *)
(* Times are exact rationals on a grid of TicksPerMs ticks per             *)
(* millisecond; strings that the code formats or inspects character by     *)
(* character (timestamps, file names) are sequences of one-character       *)
(* strings.                                                                *)
(***************************************************************************)
EXTENDS Integers, Sequences, FiniteSets, TLC

VARIABLES
    imported,               \* translator.py import: "no" | "ok" | "failed"
    whisper_model,          \* translator.py:45
    translation_pipelines,  \* translator.py:44
    whisper_loads,          \* number of whisper.load_model calls made
    pipeline_loads,         \* per language, number of pipeline(...) calls made
    last,                   \* the translator call in progress or just returned
    srt,                    \* the serializer call in progress or just returned
    fs,                     \* the files that exist
    dirs,                   \* the directories that exist
    fsop,                   \* the embed or cleanup call in progress or just returned
    req,                    \* per upload request: its input, position and locals
    disk,                   \* uploads/ and processed/: path -> writers and content
    reads,                  \* which request read which path, and whose content
    uuids                   \* how many uuid4() values were drawn

trVars == <<imported, whisper_model, translation_pipelines, whisper_loads,
            pipeline_loads, last>>

fsVars == <<fs, dirs, fsop>>

webVars == <<req, disk, reads, uuids>>

vars == <<trVars, srt, fsVars, webVars>>

\* what the actions of one part leave alone
NotTranslator == <<srt, fsVars, webVars>>
NotSerializer == <<trVars, fsVars, webVars>>
NotFiles == <<trVars, srt, webVars>>
NotWeb == <<trVars, srt, fsVars>>

----------------------------------------------------------------------------
(* Bounds *)

MaxSegs == 2

\* how many translations more than it was given texts an engine may return
MaxExtra == 1

\* the time grid: ticks per millisecond
TicksPerMs == 4

\* the longest argument list of a cleanup_files call
MaxFiles == 2

\* the longest uploaded file name, in characters
MaxNameLen == 4

\* the upload requests handled concurrently
NumRequests == 2

----------------------------------------------------------------------------
(* Python values *)

None == "None"

Falsy(v) == v = None

Min(a, b) == IF a <= b THEN a ELSE b

\* dict.get(key): None when the key is absent
Get(d, k) == IF k \in DOMAIN d THEN d[k] ELSE None

----------------------------------------------------------------------------
(* translator.py: registry *)

\* SUPPORTED_LANGUAGES, translator.py:28-34
SUPPORTED_LANGUAGES ==
    [en |-> None,
     fr |-> "Helsinki-NLP/opus-mt-en-fr",
     de |-> "Helsinki-NLP/opus-mt-en-de",
     es |-> "Helsinki-NLP/opus-mt-en-es",
     ur |-> "facebook/mbart-large-50-many-to-many-mmt"]

\* MBART_LANG_CODES, translator.py:37-41
MBART_LANG_CODES == [en |-> "en_XX", ur |-> "ur_PK", pt |-> "pt_XX"]

MbartLangs == {"ur", "pt"}

\* the handle pipeline("translation", model=model_name, ...) returns for a
\* language (translator.py:63-75), named by the model it wraps
Pipeline(lang) == SUPPORTED_LANGUAGES[lang]

WhisperBase == "whisper:base"

\* A retrying variant: also reloads an entry that holds None.
ShouldLoadRetrying(tp, lang) ==
    ~Falsy(SUPPORTED_LANGUAGES[lang]) /\ Falsy(Get(tp, lang))

\* translator.py:57, `if model_name and lang not in translation_pipelines`
ShouldLoad(tp, lang) ==
    ~Falsy(SUPPORTED_LANGUAGES[lang]) /\ lang \notin DOMAIN tp

\* the languages whose engine a load_models() call would try to load
ToLoad(tp) == {l \in DOMAIN SUPPORTED_LANGUAGES : ShouldLoad(tp, l)}

\* the outcomes a load_models() call in this state can meet: whether
\* whisper.load_model raises (asked only when it is called) and, for each
\* language it tries, whether pipeline(...) raises
LoadOutcomes(wm, tp) ==
    [whisper_ok : IF Falsy(wm) THEN BOOLEAN ELSE {TRUE},
     pipe_ok : [ToLoad(tp) -> BOOLEAN]]

\* load_models(), translator.py:48-78, from registry state (wm, tp) with load
\* counters (wl, pl).  whisper.load_model is outside any try: when it raises,
\* load_models raises before the loop.
load_models(wm, tp, wl, pl, o) ==
    IF Falsy(wm) /\ ~o.whisper_ok
    THEN [raised |-> TRUE, whisper_model |-> wm, translation_pipelines |-> tp,
          whisper_loads |-> wl + 1, pipeline_loads |-> pl]
    ELSE [raised |-> FALSE,
          whisper_model |-> IF Falsy(wm) THEN WhisperBase ELSE wm,
          translation_pipelines |->
              [l \in DOMAIN tp \cup ToLoad(tp) |->
                  IF l \in ToLoad(tp)
                  THEN IF o.pipe_ok[l] THEN Pipeline(l) ELSE None
                  ELSE tp[l]],
          whisper_loads |-> IF Falsy(wm) THEN wl + 1 ELSE wl,
          pipeline_loads |->
              [l \in DOMAIN pl |-> IF l \in ToLoad(tp) THEN pl[l] + 1 ELSE pl[l]]]

\* the registry after a load_models() call
SetRegistry(r) ==
    /\ whisper_model' = r.whisper_model
    /\ translation_pipelines' = r.translation_pipelines
    /\ whisper_loads' = r.whisper_loads
    /\ pipeline_loads' = r.pipeline_loads

\* The caller of the translator module: it calls one function at a time
\* (Call), the function runs, and the caller takes the result (Return).
NoCall == [op |-> "none", phase |-> "idle"]

Called(op) == last.phase = "called" /\ last.op = op

\* `import models.translator`: the module body ends with load_models()
\* (translator.py:222).  When that raises the import fails and none of the
\* module's functions can be called.
ImportModule ==
    /\ imported = "no"
    /\ \E o \in LoadOutcomes(whisper_model, translation_pipelines) :
        LET r == load_models(whisper_model, translation_pipelines,
                             whisper_loads, pipeline_loads, o)
        IN  /\ SetRegistry(r)
            /\ imported' = IF r.raised THEN "failed" ELSE "ok"
    /\ UNCHANGED <<last, NotTranslator>>

\* a later explicit load_models() call
LoadModels ==
    /\ Called("load_models")
    /\ \E o \in LoadOutcomes(whisper_model, translation_pipelines) :
        LET r == load_models(whisper_model, translation_pipelines,
                             whisper_loads, pipeline_loads, o)
        IN  /\ SetRegistry(r)
            /\ last' = [op |-> "load_models", phase |-> "returned",
                        raised |-> r.raised]
    /\ UNCHANGED <<imported, NotTranslator>>

----------------------------------------------------------------------------
(* translator.py: segments *)

Texts == {"hello", " world "}

\* str.strip() on the texts above
Strip(t) == IF t = " world " THEN "world" ELSE t

\* segments as the transcription engine reports them: start < end, in seconds
RawSegmentPool ==
    {[start |-> 1, end |-> 4, text |-> "hello"],
     [start |-> 5, end |-> 8, text |-> " world "]}

SeqsUpTo(S, n) == UNION {[1..k -> S] : k \in 0..n}

\* transcribe_audio's list comprehension, translator.py:104-107
Trimmed(raw) ==
    [i \in 1..Len(raw) |->
        [start |-> raw[i].start, end |-> raw[i].end, text |-> Strip(raw[i].text)]]

SegmentLists == {Trimmed(raw) : raw \in SeqsUpTo(RawSegmentPool, MaxSegs)}

\* transcribe_audio(audio_path, source_lang), translator.py:97-110.
\* engine: whether whisper_model.transcribe raises, and the segments it gives.
transcribe_audio ==
    /\ Called("transcribe_audio")
    /\ \E o \in LoadOutcomes(whisper_model, translation_pipelines),
          ok \in BOOLEAN, raw \in SeqsUpTo(RawSegmentPool, MaxSegs) :
        LET r == IF Falsy(whisper_model)
                 THEN load_models(whisper_model, translation_pipelines,
                                  whisper_loads, pipeline_loads, o)
                 ELSE [raised |-> FALSE, whisper_model |-> whisper_model,
                       translation_pipelines |-> translation_pipelines,
                       whisper_loads |-> whisper_loads,
                       pipeline_loads |-> pipeline_loads]
        IN  /\ SetRegistry(r)
            /\ last' = IF r.raised \/ ~ok
                       THEN [op |-> "transcribe_audio", phase |-> "returned",
                             raised |-> TRUE, result |-> <<>>]
                       ELSE [op |-> "transcribe_audio", phase |-> "returned",
                             raised |-> FALSE, result |-> Trimmed(raw)]
    /\ UNCHANGED <<imported, NotTranslator>>

----------------------------------------------------------------------------
(* translator.py: translation *)

\* what one element of the list an engine returns may look like:
\*   "dict"  {"translation_text": t}
\*   "list"  [{"translation_text": t}]
\*   "bad"   a value with no "translation_text"
Translations ==
    {[shape |-> "dict", translation_text |-> "bonjour"],
     [shape |-> "list", translation_text |-> "bonjour"],
     [shape |-> "bad", translation_text |-> ""]}

\* what the engine call does, given n texts: raise, or return a list
EngineResults(n) ==
    {[raises |-> TRUE, translations |-> <<>>]} \cup
    {[raises |-> FALSE, translations |-> ts] :
        ts \in SeqsUpTo(Translations, n + MaxExtra)}

\* whether reading the text of one translation raises:
\* translator.py:138 (MBART) and translator.py:144 (one-pair engines)
TextRaises(trans, mbart) ==
    IF mbart THEN trans.shape = "bad" ELSE trans.shape # "dict"

\* zip(segments, translations) stops at the shorter of the two
ZipLen(segments, translations) == Min(Len(segments), Len(translations))

\* the list comprehensions of translator.py:136-140 and 143-146
Rebuilt(segments, translations) ==
    [i \in 1..ZipLen(segments, translations) |->
        [start |-> segments[i].start, end |-> segments[i].end,
         text |-> translations[i].translation_text]]

\* a variant whose engine call is outside the try block
EngineErrorPropagates(segments) ==
    [raised |-> TRUE, result |-> <<>>, path |-> "engine_error"]

\* the except clause of translator.py:147-149
EngineErrorHandler(segments) ==
    [raised |-> FALSE, result |-> segments, path |-> "engine_error"]

\* translate_segments after its load_models() call, translator.py:125-149,
\* with registry tp
Translate(segments, target_lang, tp, engine) ==
    LET translator == Get(tp, target_lang)
        mbart == target_lang \in MbartLangs
        n == ZipLen(segments, engine.translations)
    IN  IF Falsy(translator)
        THEN [raised |-> FALSE, result |-> segments, path |-> "no_engine"]
        ELSE IF engine.raises
                \/ \E i \in 1..n : TextRaises(engine.translations[i], mbart)
        THEN EngineErrorHandler(segments)
        ELSE [raised |-> FALSE,
              result |-> Rebuilt(segments, engine.translations),
              path |-> "translated"]

Targets == DOMAIN SUPPORTED_LANGUAGES \cup {"pt", "xx"}

\* what a translate_segments call leaves with its caller
Returned(t) ==
    [op |-> "translate_segments", phase |-> "returned",
     segments |-> last.segments, target_lang |-> last.target_lang,
     raised |-> t.raised, result |-> t.result, path |-> t.path]

\* translate_segments(segments, target_lang), translator.py:113-149
translate_segments ==
    /\ Called("translate_segments")
    /\ LET segments == last.segments
           target_lang == last.target_lang
       IN  IF target_lang = "en"
           THEN /\ last' = Returned([raised |-> FALSE, result |-> segments,
                                     path |-> "same_lang"])
                /\ UNCHANGED <<whisper_model, translation_pipelines,
                               whisper_loads, pipeline_loads>>
           ELSE IF target_lang \notin DOMAIN SUPPORTED_LANGUAGES
           THEN /\ last' = Returned([raised |-> FALSE, result |-> segments,
                                     path |-> "unsupported"])
                /\ UNCHANGED <<whisper_model, translation_pipelines,
                               whisper_loads, pipeline_loads>>
           ELSE \E o \in LoadOutcomes(whisper_model, translation_pipelines),
                   engine \in EngineResults(Len(segments)) :
               LET r == IF Falsy(Get(translation_pipelines, target_lang))
                        THEN load_models(whisper_model, translation_pipelines,
                                         whisper_loads, pipeline_loads, o)
                        ELSE [raised |-> FALSE, whisper_model |-> whisper_model,
                              translation_pipelines |-> translation_pipelines,
                              whisper_loads |-> whisper_loads,
                              pipeline_loads |-> pipeline_loads]
               IN  /\ SetRegistry(r)
                   /\ last' = Returned(
                        IF r.raised
                        THEN [raised |-> TRUE, result |-> <<>>,
                              path |-> "load_error"]
                        ELSE Translate(segments, target_lang,
                                       r.translation_pipelines, engine))
    /\ UNCHANGED <<imported, NotTranslator>>

\* the caller calls a function of the imported module
Call ==
    /\ imported = "ok"
    /\ last = NoCall
    /\ \/ last' = [op |-> "load_models", phase |-> "called"]
       \/ last' = [op |-> "transcribe_audio", phase |-> "called"]
       \/ \E segments \in SegmentLists, target_lang \in Targets :
            last' = [op |-> "translate_segments", phase |-> "called",
                     segments |-> segments, target_lang |-> target_lang]
    /\ UNCHANGED <<imported, whisper_model, translation_pipelines,
                   whisper_loads, pipeline_loads, NotTranslator>>

\* the caller takes the result
Return ==
    /\ last.phase = "returned"
    /\ last' = NoCall
    /\ UNCHANGED <<imported, whisper_model, translation_pipelines,
                   whisper_loads, pipeline_loads, NotTranslator>>

----------------------------------------------------------------------------
(* The translator module on its own *)

TrInit ==
    /\ imported = "no"
    /\ whisper_model = None
    /\ translation_pipelines = <<>>
    /\ whisper_loads = 0
    /\ pipeline_loads = [l \in DOMAIN SUPPORTED_LANGUAGES |-> 0]
    /\ last = NoCall

TrNext ==
    \/ ImportModule
    \/ Call
    \/ LoadModels
    \/ transcribe_audio
    \/ translate_segments
    \/ Return

----------------------------------------------------------------------------
(* Claims about translation and the model registry *)

TranslateReturned == last.op = "translate_segments" /\ last.phase = "returned"

SameTimes(out, in) ==
    /\ Len(out) = Len(in)
    /\ \A i \in 1..Len(in) :
        out[i].start = in[i].start /\ out[i].end = in[i].end

\* C1: whenever translate_segments returns a translated result, whatever
\* list the engine returned, the output has as many segments as the input
\* and the i-th output segment has the i-th input segment's start and end.
C1_TranslationKeepsSegments ==
    (TranslateReturned /\ last.path = "translated")
        => SameTimes(last.result, last.segments)

\* C2: translate_segments never propagates an exception, and it returns its
\* input unchanged when the target is "en", when the target is unsupported,
\* when the target's engine is absent from the registry or unavailable, and
\* when the engine invocation raised.
C2_DegradesToInput ==
    TranslateReturned =>
        /\ ~last.raised
        /\ (\/ last.target_lang = "en"
            \/ last.target_lang \notin DOMAIN SUPPORTED_LANGUAGES
            \/ Falsy(Get(translation_pipelines, last.target_lang))
            \/ last.path = "engine_error")
                => last.result = last.segments

\* C2's case: an engine invocation failed on a non-empty input
C2_Witness ==
    /\ TranslateReturned
    /\ last.path = "engine_error"
    /\ Len(last.segments) > 0
    /\ last.result = last.segments

\* a registry entry, once set, stays as it is and is not loaded again
EntriesKept ==
    /\ \A l \in DOMAIN translation_pipelines :
        /\ l \in DOMAIN translation_pipelines'
        /\ translation_pipelines'[l] = translation_pipelines[l]
        /\ pipeline_loads'[l] = pipeline_loads[l]
    /\ ~Falsy(whisper_model) =>
        /\ whisper_model' = whisper_model
        /\ whisper_loads' = whisper_loads

LoadedAtMostOnce ==
    /\ whisper_loads <= 1
    /\ \A l \in DOMAIN pipeline_loads : pipeline_loads[l] <= 1

\* C10: over any sequence of load_models, transcribe_audio and
\* translate_segments calls, the transcription model and every language's
\* engine are load-attempted at most once, and a registry entry that is set
\* (to a handle or to None after a failed load) is never changed, removed
\* or retried.
C10_LoadedOnce == []LoadedAtMostOnce /\ [][EntriesKept]_vars

\* C10's case: translate_segments has called load_models again for a
\* language whose engine is unavailable
C10_Witness ==
    /\ TranslateReturned
    /\ last.path = "no_engine"
    /\ last.target_lang \in DOMAIN translation_pipelines
    /\ translation_pipelines[last.target_lang] = None
    /\ pipeline_loads[last.target_lang] = 1

----------------------------------------------------------------------------
(* Characters and decimal numerals *)

Digits == <<"0", "1", "2", "3", "4", "5", "6", "7", "8", "9">>

RECURSIVE Numeral(_)
\* str(n) for n >= 0
Numeral(n) ==
    IF n < 10 THEN <<Digits[n + 1]>>
    ELSE Append(Numeral(n \div 10), Digits[(n % 10) + 1])

RECURSIVE Zeros(_)
Zeros(k) == IF k <= 0 THEN <<>> ELSE <<"0">> \o Zeros(k - 1)

\* the format specs :02, :02d and :03 on a non-negative integer: at least
\* w digits, padded with zeros on the left
Padded(n, w) == Zeros(w - Len(Numeral(n))) \o Numeral(n)

----------------------------------------------------------------------------
(* Times *)

TicksPerSecond == 1000 * TicksPerMs

\* the time h:m:s plus ms milliseconds plus sub ticks, in ticks
Time(h, m, s, ms, sub) ==
    ((h * 3600 + m * 60 + s) * 1000 + ms) * TicksPerMs + sub

\* non-negative times, with and without a part below the millisecond
Times ==
    {Time(h, m, s, ms, sub) :
        h \in {0, 1, 100}, m \in {0, 1, 59}, s \in {0, 1, 59},
        ms \in {0, 250, 999}, sub \in 0..(TicksPerMs - 1)}

----------------------------------------------------------------------------
(* translator.py: format_timestamp *)

\* a variant that keeps hundredths of a second
HundredthsOf(seconds) == (seconds % TicksPerSecond) \div (10 * TicksPerMs)

\* translator.py:156, int((seconds - int(seconds)) * 1000): the fraction of
\* the second, in milliseconds, cut towards zero
MillisecondsOf(seconds) == (seconds % TicksPerSecond) \div TicksPerMs

\* format_timestamp(seconds), translator.py:152-157
format_timestamp(seconds) ==
    LET hours == seconds \div (3600 * TicksPerSecond)
        rem == seconds % (3600 * TicksPerSecond)
        minutes == rem \div (60 * TicksPerSecond)
        secs == rem % (60 * TicksPerSecond)
    IN  Padded(hours, 2) \o <<":">> \o Padded(minutes, 2) \o <<":">>
        \o Padded(secs \div TicksPerSecond, 2) \o <<",">>
        \o Padded(MillisecondsOf(secs), 3)

----------------------------------------------------------------------------
(* app.py: format_time *)

\* the format spec .3f: the value in milliseconds, rounded to the nearest,
\* a tie to the even one
RoundedMs(ticks) ==
    LET q == ticks \div TicksPerMs
        r == ticks % TicksPerMs
    IN  IF 2 * r < TicksPerMs THEN q
        ELSE IF 2 * r > TicksPerMs THEN q + 1
        ELSE IF q % 2 = 0 THEN q ELSE q + 1

\* format_time(seconds), app.py:131-136.  {secs:06.3f} is the rounded value
\* with three decimals in a field of six, zero-filled: two digits or more
\* before the point.
format_time(seconds) ==
    LET hours == seconds \div (3600 * TicksPerSecond)
        minutes == (seconds % (3600 * TicksPerSecond)) \div (60 * TicksPerSecond)
        secs == seconds % (60 * TicksPerSecond)
        shown == RoundedMs(secs)
    IN  Padded(hours, 2) \o <<":">> \o Padded(minutes, 2) \o <<":">>
        \o Padded(shown \div 1000, 2) \o <<",">> \o Padded(shown % 1000, 3)

----------------------------------------------------------------------------
(* Serializing segments *)

Arrow == <<" ", "-", "-", ">", " ">>

\* the lines of one entry: number, time range, text, blank
\* (translator.py:167-169, app.py:100)
EntryLines(i, start_time, end_time, text) ==
    <<Numeral(i), start_time \o Arrow \o end_time, <<text>>, <<>>>>

RECURSIVE SrtLines(_, _, _)
\* the lines written for segments k..n by generate_srt's loop,
\* translator.py:166-169
SrtLines(segments, k, n) ==
    IF k > n THEN <<>>
    ELSE EntryLines(k, format_timestamp(segments[k].start),
                    format_timestamp(segments[k].end), segments[k].text)
         \o SrtLines(segments, k + 1, n)

RECURSIVE SrtContent(_, _)
\* srt_content after generate_subtitles' loop over subtitles k.., app.py:96-100
SrtContent(subtitles, k) ==
    IF k > Len(subtitles) THEN <<>>
    ELSE EntryLines(k, format_time(subtitles[k].start),
                    format_time(subtitles[k].end), subtitles[k].text)
         \o SrtContent(subtitles, k + 1)

\* segments to serialize: start < end, some times off the millisecond grid
SrtSegmentPool ==
    {[start |-> Time(0, 0, 0, 0, 0), end |-> Time(0, 0, 0, 999, TicksPerMs - 1),
      text |-> "hello"],
     [start |-> Time(0, 0, 59, 999, TicksPerMs - 1), end |-> Time(0, 1, 1, 250, 0),
      text |-> "world"],
     [start |-> Time(0, 59, 59, 999, TicksPerMs \div 2), end |-> Time(1, 1, 1, 250, 1),
      text |-> "hello"],
     [start |-> Time(1, 1, 1, 0, 1), end |-> Time(100, 0, 0, 0, 1),
      text |-> "world"]}

NoSrtCall == [op |-> "none", phase |-> "idle"]

\* the caller of a serializer function: it formats one time or serializes
\* one list of segments
SrtCall ==
    /\ srt = NoSrtCall
    /\ \/ \E t \in Times, f \in {"format_timestamp", "format_time"} :
            srt' = [op |-> f, phase |-> "called", seconds |-> t]
       \/ \E segments \in SeqsUpTo(SrtSegmentPool, MaxSegs),
             f \in {"generate_srt", "srt_content"} :
            srt' = [op |-> f, phase |-> "called", segments |-> segments]
    /\ UNCHANGED NotSerializer

FormatTimestamp ==
    /\ srt.phase = "called" /\ srt.op = "format_timestamp"
    /\ srt' = [srt EXCEPT !.phase = "returned"]
                @@ [result |-> format_timestamp(srt.seconds)]
    /\ UNCHANGED NotSerializer

FormatTime ==
    /\ srt.phase = "called" /\ srt.op = "format_time"
    /\ srt' = [srt EXCEPT !.phase = "returned"]
                @@ [result |-> format_time(srt.seconds)]
    /\ UNCHANGED NotSerializer

\* generate_srt(segments, srt_path), translator.py:160-173.  makedirs, open
\* or a write may fail: the error is logged and raised again, with the file
\* absent or holding the entries written so far.
generate_srt ==
    /\ srt.phase = "called" /\ srt.op = "generate_srt"
    /\ \E io_ok \in BOOLEAN, written \in 0..Len(srt.segments) :
        /\ io_ok => written = Len(srt.segments)
        /\ srt' = [srt EXCEPT !.phase = "returned"]
                    @@ [raised |-> ~io_ok,
                        file |-> SrtLines(srt.segments, 1, written)]
    /\ UNCHANGED NotSerializer

\* the loop of generate_subtitles that builds srt_content, app.py:95-100
BuildSrtContent ==
    /\ srt.phase = "called" /\ srt.op = "srt_content"
    /\ srt' = [srt EXCEPT !.phase = "returned"]
                @@ [raised |-> FALSE, file |-> SrtContent(srt.segments, 1)]
    /\ UNCHANGED NotSerializer

SrtReturn ==
    /\ srt.phase = "returned"
    /\ srt' = NoSrtCall
    /\ UNCHANGED NotSerializer

SrtInit == srt = NoSrtCall

SrtNext ==
    \/ SrtCall
    \/ FormatTimestamp
    \/ FormatTime
    \/ generate_srt
    \/ BuildSrtContent
    \/ SrtReturn

----------------------------------------------------------------------------
(* Claims about timestamps and the subtitle file *)

\* HH:MM:SS,mmm as the specification defines it: HH = floor(t / 3600),
\* MM = floor((t mod 3600) / 60), SS = floor(t mod 60), mmm = the
\* millisecond part of t cut, not rounded
SpecifiedTimestamp(t) ==
    Padded(t \div (3600 * TicksPerSecond), 2) \o <<":">>
    \o Padded((t % (3600 * TicksPerSecond)) \div (60 * TicksPerSecond), 2)
    \o <<":">>
    \o Padded((t % (60 * TicksPerSecond)) \div TicksPerSecond, 2) \o <<",">>
    \o Padded((t % TicksPerSecond) \div TicksPerMs, 3)

\* C3: for every non-negative time, format_timestamp and format_time both
\* render the zero-padded HH:MM:SS,mmm with MM and SS in 0..59 and the
\* milliseconds cut, not rounded.
C3_TimestampAsSpecified ==
    (srt.phase = "returned" /\ srt.op \in {"format_timestamp", "format_time"})
        => srt.result = SpecifiedTimestamp(srt.seconds)

DigitValue(c) == CHOOSE d \in 0..9 : Digits[d + 1] = c

RECURSIVE ParseInt(_)
ParseInt(s) ==
    IF s = <<>> THEN 0
    ELSE 10 * ParseInt(SubSeq(s, 1, Len(s) - 1)) + DigitValue(s[Len(s)])

\* the place of the first c in s
IndexOf(s, c) ==
    CHOOSE i \in 1..Len(s) : s[i] = c /\ \A j \in 1..(i - 1) : s[j] # c

\* HH:MM:SS,mmm read back, in milliseconds:
\* 3600000 * HH + 60000 * MM + 1000 * SS + mmm
ParseTimestamp(ts) ==
    LET c1 == IndexOf(ts, ":")
        afterH == SubSeq(ts, c1 + 1, Len(ts))
        c2 == IndexOf(afterH, ":")
        afterM == SubSeq(afterH, c2 + 1, Len(afterH))
        c3 == IndexOf(afterM, ",")
    IN  3600000 * ParseInt(SubSeq(ts, 1, c1 - 1))
        + 60000 * ParseInt(SubSeq(afterH, 1, c2 - 1))
        + 1000 * ParseInt(SubSeq(afterM, 1, c3 - 1))
        + ParseInt(SubSeq(afterM, c3 + 1, Len(afterM)))

\* the two timestamps of a "start --> end" line
StartOf(line) == SubSeq(line, 1, IndexOf(line, " ") - 1)
EndOf(line) == SubSeq(line, IndexOf(line, ">") + 2, Len(line))

\* a parsed time (milliseconds) is within one millisecond of t (ticks)
WithinOneMs(parsed, t) ==
    /\ parsed * TicksPerMs - t <= TicksPerMs
    /\ t - parsed * TicksPerMs <= TicksPerMs

Serialized ==
    /\ srt.phase = "returned"
    /\ srt.op \in {"generate_srt", "srt_content"}
    /\ ~srt.raised

\* C4: for any segment sequence, the subtitle file holds one entry per
\* segment, in the same order, numbered 1..n, and each entry's start and
\* end, parsed back into seconds, are within 1 millisecond of the
\* segment's.
C4_RoundTripWithinOneMs ==
    Serialized =>
        /\ Len(srt.file) = 4 * Len(srt.segments)
        /\ \A i \in 1..Len(srt.segments) :
            /\ ParseInt(srt.file[4 * i - 3]) = i
            /\ WithinOneMs(ParseTimestamp(StartOf(srt.file[4 * i - 2])),
                           srt.segments[i].start)
            /\ WithinOneMs(ParseTimestamp(EndOf(srt.file[4 * i - 2])),
                           srt.segments[i].end)
            /\ srt.file[4 * i - 1] = <<srt.segments[i].text>>

\* C4's case: two segments written by generate_srt, one of them with a
\* start that the file does not reproduce exactly
C4_Witness ==
    /\ Serialized
    /\ srt.op = "generate_srt"
    /\ Len(srt.segments) = 2
    /\ srt.segments[1] # srt.segments[2]
    /\ \E i \in 1..2 :
        ParseTimestamp(StartOf(srt.file[4 * i - 2])) * TicksPerMs
            # srt.segments[i].start

----------------------------------------------------------------------------
(* translator.py: files *)

VideoPath == "uploads/clip.mp4"
SrtPath == "processed/clip.srt"
OutputPaths == {"processed/out.mp4", "out.mp4", "processed/a:b.mp4"}

\* files that the rest of the pipeline may have left behind
TempPaths == {VideoPath, SrtPath, "processed/out.mp4"}

\* os.path.dirname on the output paths above
Dirname(path) == IF path = "out.mp4" THEN "" ELSE "processed"

\* escape_path, translator.py:187-188, on the paths above: backslashes
\* become slashes, then every colon gets a backslash in front
escape_path(path) == IF path = "processed/a:b.mp4" THEN "processed/a\\:b.mp4" ELSE path

\* os.path.exists
Exists(files, path) == path \in files

\* a variant that checks the video only
FirstMissingVideoOnly(files, video_path, srt_path) ==
    IF ~Exists(files, video_path) THEN "Video file not found" ELSE "none"

\* translator.py:182-185: the FileNotFoundError raised, if any
FirstMissing(files, video_path, srt_path) ==
    IF ~Exists(files, video_path) THEN "Video file not found"
    ELSE IF ~Exists(files, srt_path) THEN "Subtitle file not found"
    ELSE "none"

NoFsCall == [op |-> "none", phase |-> "idle"]

\* embed_subtitles(video_path, srt_path, output_path), translator.py:176-207.
\* mk_ok: whether os.makedirs succeeds (it cannot for the empty dirname);
\* run_ok: whether the transcoder succeeds (it cannot without its input);
\* wrote: whether the transcoder leaves an output file.
\* Every exception is logged and raised again.
embed_subtitles ==
    /\ fsop.phase = "called" /\ fsop.op = "embed_subtitles"
    /\ \E mk_ok \in BOOLEAN, run_ok \in BOOLEAN, wrote \in BOOLEAN :
        LET d == Dirname(fsop.output_path)
            made == mk_ok /\ d # ""
            missing == FirstMissing(fs, fsop.video_path, fsop.srt_path)
            invoked == made /\ missing = "none"
            ran == invoked /\ run_ok /\ Exists(fs, escape_path(fsop.video_path))
        IN  /\ ran => wrote
            /\ ~invoked => (run_ok /\ ~wrote)
            /\ d = "" => mk_ok
            /\ dirs' = IF made THEN dirs \cup {d} ELSE dirs
            /\ fs' = IF invoked /\ wrote
                     THEN fs \cup {escape_path(fsop.output_path)} ELSE fs
            /\ fsop' = [fsop EXCEPT !.phase = "returned"]
                        @@ [fs_before |-> fs,
                            transcoder_invoked |-> invoked,
                            error |-> IF ~made THEN "makedirs"
                                      ELSE IF missing # "none" THEN missing
                                      ELSE IF ~ran THEN "ffmpeg.Error"
                                      ELSE "none"]
    /\ UNCHANGED NotFiles

\* a variant that lets the error of os.remove end the loop
AbortOnError(continued, stopped) == stopped

\* the except clause of translator.py:217-218: warn, and go on with the
\* next file
WarnAndContinue(continued, stopped) == continued

RECURSIVE CleanupFrom(_, _, _, _, _)
\* cleanup_files' loop from files[i] on, translator.py:212-218: the files
\* left and a log of what happened to each path visited.  fail_at[i]: whether
\* os.remove(files[i]) raises.
CleanupFrom(files, i, left, fail_at, log) ==
    IF i > Len(files) THEN [fs |-> left, log |-> log, raised |-> FALSE]
    ELSE IF ~Exists(left, files[i])
    THEN CleanupFrom(files, i + 1, left, fail_at,
                     Append(log, [file |-> files[i], did |-> "skipped"]))
    ELSE IF fail_at[i]
    THEN WarnAndContinue(
            CleanupFrom(files, i + 1, left, fail_at,
                        Append(log, [file |-> files[i], did |-> "warned"])),
            [fs |-> left, raised |-> TRUE,
             log |-> Append(log, [file |-> files[i], did |-> "warned"])])
    ELSE CleanupFrom(files, i + 1, left \ {files[i]}, fail_at,
                     Append(log, [file |-> files[i], did |-> "deleted"]))

\* cleanup_files(*files), translator.py:210-218
cleanup_files ==
    /\ fsop.phase = "called" /\ fsop.op = "cleanup_files"
    /\ \E fail_at \in [1..Len(fsop.files) -> BOOLEAN] :
        LET r == CleanupFrom(fsop.files, 1, fs, fail_at, <<>>)
        IN  /\ \A i \in 1..Len(fsop.files) :
                fail_at[i] => Exists(fs, fsop.files[i])
            /\ fs' = r.fs
            /\ fsop' = [fsop EXCEPT !.phase = "returned"]
                        @@ [fs_before |-> fs, raised |-> r.raised, log |-> r.log]
    /\ UNCHANGED <<dirs, NotFiles>>

\* another step of the pipeline leaves a file
WriteFile ==
    /\ fsop = NoFsCall
    /\ \E path \in TempPaths :
        /\ path \notin fs
        /\ fs' = fs \cup {path}
    /\ UNCHANGED <<dirs, fsop, NotFiles>>

FsCall ==
    /\ fsop = NoFsCall
    /\ \/ \E output_path \in OutputPaths :
            fsop' = [op |-> "embed_subtitles", phase |-> "called",
                     video_path |-> VideoPath, srt_path |-> SrtPath,
                     output_path |-> output_path]
       \/ \E files \in SeqsUpTo(TempPaths, MaxFiles) :
            fsop' = [op |-> "cleanup_files", phase |-> "called", files |-> files]
    /\ UNCHANGED <<fs, dirs, NotFiles>>

FsReturn ==
    /\ fsop.phase = "returned"
    /\ fsop' = NoFsCall
    /\ UNCHANGED <<fs, dirs, NotFiles>>

FsInit ==
    /\ fs = {}
    /\ dirs = {}
    /\ fsop = NoFsCall

FsNext ==
    \/ WriteFile
    \/ FsCall
    \/ embed_subtitles
    \/ cleanup_files
    \/ FsReturn

----------------------------------------------------------------------------
(* Claims about embedding and cleanup *)

EmbedReturned == fsop.phase = "returned" /\ fsop.op = "embed_subtitles"

NothingDone == ~fsop.transcoder_invoked /\ fs = fsop.fs_before

\* C6: embed_subtitles fails with "video not found" when the video path does
\* not exist, otherwise with "subtitle not found" when the subtitle path
\* does not exist, in both cases without invoking the transcoder or writing
\* an output video; the transcoder runs only when both files exist.
C6_PreconditionsNamed ==
    EmbedReturned =>
        /\ ~Exists(fsop.fs_before, fsop.video_path)
            => (fsop.error = "Video file not found" /\ NothingDone)
        /\ (Exists(fsop.fs_before, fsop.video_path)
            /\ ~Exists(fsop.fs_before, fsop.srt_path))
            => (fsop.error = "Subtitle file not found" /\ NothingDone)
        /\ fsop.transcoder_invoked
            => (Exists(fsop.fs_before, fsop.video_path)
                /\ Exists(fsop.fs_before, fsop.srt_path))

\* C6 as amended: embed_subtitles creates the output directory first, and
\* when that fails it fails with that error; otherwise a missing video
\* fails with "video not found" and, the video present, a missing subtitle
\* file with "subtitle not found".  In all three cases the transcoder is not
\* invoked and no output video is written; the transcoder runs only when
\* both files exist.
C6_PreconditionsAfterMakedirs ==
    EmbedReturned =>
        /\ fsop.error = "makedirs" => NothingDone
        /\ (fsop.error # "makedirs" /\ ~Exists(fsop.fs_before, fsop.video_path))
            => (fsop.error = "Video file not found" /\ NothingDone)
        /\ (fsop.error # "makedirs" /\ Exists(fsop.fs_before, fsop.video_path)
            /\ ~Exists(fsop.fs_before, fsop.srt_path))
            => (fsop.error = "Subtitle file not found" /\ NothingDone)
        /\ fsop.transcoder_invoked
            => (Exists(fsop.fs_before, fsop.video_path)
                /\ Exists(fsop.fs_before, fsop.srt_path))

\* C6's case: the video exists and the subtitle file does not
C6_Witness ==
    /\ EmbedReturned
    /\ Exists(fsop.fs_before, fsop.video_path)
    /\ ~Exists(fsop.fs_before, fsop.srt_path)
    /\ fsop.error = "Subtitle file not found"

CleanupReturned == fsop.phase = "returned" /\ fsop.op = "cleanup_files"

\* C9: cleanup_files never raises and visits every path of its list in
\* order; a path that does not exist is skipped, a failed deletion is a
\* warning, and neither stops the later paths; afterwards every listed path
\* that existed and whose deletion did not fail is gone, and no path outside
\* the list is removed.
C9_CleanupVisitsAll ==
    CleanupReturned =>
        /\ ~fsop.raised
        /\ Len(fsop.log) = Len(fsop.files)
        /\ \A i \in 1..Len(fsop.files) :
            /\ fsop.log[i].file = fsop.files[i]
            /\ ~Exists(fsop.fs_before, fsop.files[i])
                => fsop.log[i].did = "skipped"
            /\ fsop.log[i].did = "deleted" => ~Exists(fs, fsop.files[i])
            /\ (Exists(fsop.fs_before, fsop.files[i])
                /\ \A j \in 1..Len(fsop.log) :
                    fsop.log[j].file = fsop.files[i] => fsop.log[j].did # "warned")
                => ~Exists(fs, fsop.files[i])
        /\ fs \subseteq fsop.fs_before
        /\ \A path \in fsop.fs_before \ fs :
            \E i \in 1..Len(fsop.files) : fsop.files[i] = path

\* C9's case: a deletion failed and a later path was still deleted
C9_Witness ==
    /\ CleanupReturned
    /\ \E i, j \in 1..Len(fsop.log) :
        /\ i < j
        /\ fsop.log[i].did = "warned"
        /\ fsop.log[j].did = "deleted"
        /\ Exists(fs, fsop.files[i])
        /\ ~Exists(fs, fsop.files[j])

----------------------------------------------------------------------------
(* app.py: file names *)

NameChars == {".", "m", "p", "4", "a", "M"}

\* str.lower() on the characters above
Lower(c) == IF c = "M" THEN "m" ELSE c

LowerAll(name) == [i \in 1..Len(name) |-> Lower(name[i])]

\* ALLOWED_EXTENSIONS, app.py:23
ALLOWED_EXTENSIONS ==
    {<<"m", "p", "4">>, <<"a", "v", "i">>, <<"m", "o", "v">>, <<"m", "p", "3">>,
     <<"w", "a", "v">>, <<"o", "g", "g">>, <<"m", "4", "a">>}

HasDot(name) == \E i \in 1..Len(name) : name[i] = "."

\* the place of the last "." of a name that has one
LastDot(name) ==
    CHOOSE i \in 1..Len(name) :
        name[i] = "." /\ \A j \in (i + 1)..Len(name) : name[j] # "."

\* filename.rsplit('.', 1)[1]
AfterLastDot(name) == SubSeq(name, LastDot(name) + 1, Len(name))

\* whether name ends with the characters of suffix
EndsWith(name, suffix) ==
    /\ Len(name) >= Len(suffix)
    /\ SubSeq(name, Len(name) - Len(suffix) + 1, Len(name)) = suffix

\* a variant that looks at the end of the name and not at its extension
allowed_file_by_ending(filename) ==
    \E e \in ALLOWED_EXTENSIONS : EndsWith(LowerAll(filename), e)

\* allowed_file(filename), app.py:25-27
allowed_file(filename) ==
    HasDot(filename) /\ LowerAll(AfterLastDot(filename)) \in ALLOWED_EXTENSIONS

RECURSIVE StripDots(_)
\* str.strip('.') on a name
StripDots(name) ==
    IF name = <<>> THEN name
    ELSE IF name[1] = "." THEN StripDots(Tail(name))
    ELSE IF name[Len(name)] = "." THEN StripDots(SubSeq(name, 1, Len(name) - 1))
    ELSE name

\* werkzeug's secure_filename on names and uuid-prefixed names made of the
\* characters above, all of which it keeps: it strips the leading and
\* trailing dots
secure_filename(name) == StripDots(name)

\* os.path.join(folder, name)
Join(folder, name) == <<folder, "/">> \o name

\* os.path.basename of a joined path
Basename(path) == SubSeq(path, 3, Len(path))

\* str(uuid.uuid4()) for the k-th value drawn: no two draws are equal
Uuid4(k) == <<"uuid", Numeral(k)[1]>>

\* a variant that saves the upload under its own name
PlainFilename(uuid, filename) == filename

\* app.py:161, f"{uuid.uuid4()}_{filename}"
UniqueFilename(uuid, filename) == uuid \o <<"_">> \o filename

\* app.py:103, f"{job_id}.srt"
SrtFilename(job_id) == job_id \o <<".", "s", "r", "t">>

\* app.py:111, f"{job_id}_{secure_filename(os.path.basename(file_path))}"
ProcessedFilename(job_id, file_path) ==
    job_id \o <<"_">> \o secure_filename(Basename(file_path))

\* app.py:124, file_path.lower().endswith(('.mp4', '.avi', '.mov'))
HasVideo(file_path) ==
    \E e \in {<<".", "m", "p", "4">>, <<".", "a", "v", "i">>, <<".", "m", "o", "v">>} :
        EndsWith(LowerAll(file_path), e)

----------------------------------------------------------------------------
(* app.py: the demo orchestrator and the upload endpoint *)

MockLanguages == {"en", "ur", "es", "fr", "de", "pt"}

\* subtitle_data, app.py:47-90: per language five segments, 1-4 s, 5-8 s,
\* ..., 17-20 s; the text of line i in language lang is named <<lang, i>>
subtitle_data ==
    [lang \in MockLanguages |->
        [i \in 1..5 |->
            [start |-> Time(0, 0, 4 * i - 3, 0, 0),
             end |-> Time(0, 0, 4 * i, 0, 0),
             text |-> <<lang, i>>]]]

\* app.py:93, subtitle_data.get(target_language, subtitle_data['en'])
SubtitlesFor(target_language) ==
    IF target_language \in DOMAIN subtitle_data
    THEN subtitle_data[target_language] ELSE subtitle_data["en"]

Requests == 1..NumRequests

NoFile == [present |-> FALSE, filename |-> <<>>]

NoResult == [none |-> TRUE]

IdleRequest ==
    [pc |-> "idle", file |-> NoFile, language |-> "en",
     file_path |-> <<>>, job_id |-> <<>>, invoked |-> FALSE,
     job_raised |-> FALSE, result |-> NoResult, response |-> NoResult]

\* a variant without the try block
JobErrorRaised(error) ==
    [raised |-> TRUE, result |-> NoResult, error |-> error]

\* the except clause of generate_subtitles, app.py:127-129
JobError(error) ==
    [raised |-> FALSE, result |-> [success |-> FALSE, error |-> error],
     error |-> error]

\* what the route answers to generate_subtitles' outcome: app.py:170-181,
\* and app.py:183-185 when the call raised
RouteResponse(job) ==
    IF job.raised
    THEN [success |-> FALSE, error |-> job.error]
    ELSE IF job.result.success
    THEN [success |-> TRUE, job_id |-> job.result.job_id,
          subtitles |-> job.result.subtitles,
          srt_file |-> job.result.srt_file,
          processed_file |-> job.result.processed_file,
          has_video |-> job.result.has_video,
          download_link |-> job.result.processed_file]
    ELSE [success |-> FALSE, error |-> job.result.error]

\* a write of content to path by request r
Written(r, path, content) ==
    [p \in DOMAIN disk \cup {path} |->
        IF p = path
        THEN [writers |-> (IF p \in DOMAIN disk THEN disk[p].writers ELSE {})
                            \cup {r},
              content |-> content]
        ELSE disk[p]]

\* a POST /generate arrives
Receive(r, files, languages) ==
    /\ req[r].pc = "idle"
    /\ \E file \in files, language \in languages :
        req' = [req EXCEPT ![r] = [@ EXCEPT !.pc = "received", !.file = file,
                                            !.language = language]]
    /\ UNCHANGED <<disk, reads, uuids, NotWeb>>

Answer(r, response) ==
    req' = [req EXCEPT ![r] = [@ EXCEPT !.pc = "done", !.response = response]]

\* generate_subtitles_route up to file.save, app.py:144-165
Upload(r) ==
    /\ req[r].pc = "received"
    /\ IF ~req[r].file.present
       THEN /\ Answer(r, [success |-> FALSE, error |-> "No file uploaded"])
            /\ UNCHANGED <<disk, uuids>>
       ELSE IF req[r].file.filename = <<>>
       THEN /\ Answer(r, [success |-> FALSE, error |-> "No file selected"])
            /\ UNCHANGED <<disk, uuids>>
       ELSE IF ~allowed_file(req[r].file.filename)
       THEN /\ Answer(r, [success |-> FALSE, error |-> "File type not allowed"])
            /\ UNCHANGED <<disk, uuids>>
       ELSE LET filename == secure_filename(req[r].file.filename)
                file_path == Join("uploads",
                                  UniqueFilename(Uuid4(uuids + 1), filename))
            IN  /\ uuids' = uuids + 1
                /\ \E save_ok \in BOOLEAN :
                    IF save_ok
                    THEN /\ disk' = Written(r, file_path, <<"upload", r>>)
                         /\ req' = [req EXCEPT ![r] =
                                [@ EXCEPT !.pc = "saved", !.file_path = file_path]]
                    ELSE /\ disk' = disk
                         /\ Answer(r, [success |-> FALSE,
                                       error |-> "cannot save the upload"])
    /\ UNCHANGED <<reads, NotWeb>>

\* generate_subtitles up to the writing of the .srt file, app.py:38-107,
\* and the route's answer when it fails
WriteSrt(r) ==
    /\ req[r].pc = "saved"
    /\ LET job_id == Uuid4(uuids + 1)
           subtitles == SubtitlesFor(req[r].language)
           srt_path == Join("processed", SrtFilename(job_id))
       IN  /\ uuids' = uuids + 1
           /\ \E write_ok \in BOOLEAN :
                IF write_ok
                THEN /\ disk' = Written(r, srt_path, SrtContent(subtitles, 1))
                     /\ req' = [req EXCEPT ![r] =
                            [@ EXCEPT !.pc = "srt_written", !.job_id = job_id,
                                      !.invoked = TRUE]]
                ELSE LET job == JobError("cannot write the srt file")
                     IN  /\ disk' = disk
                         /\ req' = [req EXCEPT ![r] =
                                [@ EXCEPT !.pc = "done", !.job_id = job_id,
                                          !.invoked = TRUE,
                                          !.job_raised = job.raised,
                                          !.result = job.result,
                                          !.response = RouteResponse(job)]]
    /\ UNCHANGED <<reads, NotWeb>>

\* the rest of generate_subtitles, app.py:109-129, and the route's answer,
\* app.py:170-185
CopyAndAnswer(r) ==
    /\ req[r].pc = "srt_written"
    /\ LET file_path == req[r].file_path
           job_id == req[r].job_id
           processed_filename == ProcessedFilename(job_id, file_path)
           processed_path == Join("processed", processed_filename)
       IN  \E copy_ok \in BOOLEAN :
            LET job ==
                    IF copy_ok
                    THEN [raised |-> FALSE,
                          result |->
                            [success |-> TRUE, job_id |-> job_id,
                             subtitles |-> SubtitlesFor(req[r].language),
                             srt_file |-> SrtFilename(job_id),
                             processed_file |-> processed_filename,
                             has_video |-> HasVideo(file_path)],
                          error |-> ""]
                    ELSE JobError("cannot copy the upload")
            IN  /\ disk' = IF copy_ok
                           THEN Written(r, processed_path, disk[file_path].content)
                           ELSE disk
                /\ reads' = IF copy_ok
                            THEN reads \cup {[reader |-> r, path |-> file_path,
                                              content |-> disk[file_path].content]}
                            ELSE reads
                /\ req' = [req EXCEPT ![r] =
                        [@ EXCEPT !.pc = "done", !.job_raised = job.raised,
                                  !.result = job.result,
                                  !.response = RouteResponse(job)]]
    /\ UNCHANGED <<uuids, NotWeb>>

WebInit ==
    /\ req = [r \in Requests |-> IdleRequest]
    /\ disk = <<>>
    /\ reads = {}
    /\ uuids = 0

FilePart(filename) == [present |-> TRUE, filename |-> filename]

\* requests without a file part, and with file names of up to MaxNameLen
\* characters
UploadFiles == {NoFile} \cup {FilePart(n) : n \in SeqsUpTo(NameChars, MaxNameLen)}

UploadLanguages == {"en", "es", "xx"}

\* one request
ReceiveUpload == Receive(1, UploadFiles, UploadLanguages)

UploadOne == Upload(1)

WriteSrtOne == WriteSrt(1)

CopyAndAnswerOne == CopyAndAnswer(1)

UploadNext ==
    \/ ReceiveUpload
    \/ UploadOne
    \/ WriteSrtOne
    \/ CopyAndAnswerOne

\* concurrent requests, which may all upload the same file name
JobFiles == {FilePart(<<"a", ".", "m", "p", "4">>), FilePart(<<"a", ".", "M", "4", "a">>)}

ReceiveJob == \E r \in Requests : Receive(r, JobFiles, {"es"})

UploadJob == \E r \in Requests : Upload(r)

WriteSrtJob == \E r \in Requests : WriteSrt(r)

CopyAndAnswerJob == \E r \in Requests : CopyAndAnswer(r)

JobsNext ==
    \/ ReceiveJob
    \/ UploadJob
    \/ WriteSrtJob
    \/ CopyAndAnswerJob

----------------------------------------------------------------------------
(* Claims about the upload endpoint and the orchestrator *)

\* the last dot-separated extension of name, lower-cased, is an allowed one
HasAllowedExtension(name) ==
    \E i \in 1..Len(name) :
        /\ name[i] = "."
        /\ \A j \in (i + 1)..Len(name) : name[j] # "."
        /\ LowerAll(SubSeq(name, i + 1, Len(name))) \in ALLOWED_EXTENSIONS

ToReject(r) ==
    \/ ~req[r].file.present
    \/ req[r].file.filename = <<>>
    \/ ~HasAllowedExtension(req[r].file.filename)

WrittenBy(r) == {path \in DOMAIN disk : r \in disk[path].writers}

Handled(r) == req[r].pc \notin {"idle", "received"}

\* C7: a request with no file part, with an empty file name, or with a file
\* name whose last extension (case-insensitive) is not an allowed one or
\* that has no extension gets success=false (the error names the file type
\* when it is the extension that is refused); nothing is written to
\* uploads/ or processed/ and the pipeline is not invoked.
C7_RejectsBadUploads ==
    \A r \in Requests :
        (Handled(r) /\ ToReject(r)) =>
            /\ req[r].pc = "done"
            /\ req[r].response.success = FALSE
            /\ WrittenBy(r) = {}
            /\ ~req[r].invoked
            /\ (req[r].file.present /\ req[r].file.filename # <<>>)
                => req[r].response.error = "File type not allowed"

\* C7's case: a file name with an extension that is not allowed
C7_Witness ==
    \E r \in Requests :
        /\ req[r].pc = "done"
        /\ HasDot(req[r].file.filename)
        /\ Len(AfterLastDot(req[r].file.filename)) = 3
        /\ req[r].response = [success |-> FALSE, error |-> "File type not allowed"]

JobDone(r) == req[r].pc = "done" /\ req[r].invoked

\* C5: generate_subtitles never raises; when a step fails it returns a
\* result of the same structure as on success (job_id, subtitles, srt_file,
\* processed_file) with success=false and an error string, and the endpoint
\* answers with success=false and that error.
C5_UniformResult ==
    \A r \in Requests :
        JobDone(r) =>
            /\ ~req[r].job_raised
            /\ {"success", "job_id", "subtitles", "srt_file", "processed_file"}
                \subseteq DOMAIN req[r].result
            /\ ~req[r].result.success =>
                /\ "error" \in DOMAIN req[r].result
                /\ req[r].response
                    = [success |-> FALSE, error |-> req[r].result.error]

\* C5 as amended: generate_subtitles never raises; when a step fails it
\* returns a result that holds success=false and an error string and nothing
\* else (no job_id, subtitles, srt_file or processed_file, which only a
\* success carries), the same whichever step failed, and the endpoint
\* answers with success=false and that error.
C5_FailureResult ==
    \A r \in Requests :
        JobDone(r) =>
            /\ ~req[r].job_raised
            /\ "success" \in DOMAIN req[r].result
            /\ req[r].result.success =>
                {"success", "job_id", "subtitles", "srt_file", "processed_file"}
                    \subseteq DOMAIN req[r].result
            /\ ~req[r].result.success =>
                /\ DOMAIN req[r].result = {"success", "error"}
                /\ req[r].response
                    = [success |-> FALSE, error |-> req[r].result.error]

\* C5's case: the copy failed after the .srt file was written
C5_Witness ==
    \E r \in Requests :
        /\ JobDone(r)
        /\ req[r].result = [success |-> FALSE, error |-> "cannot copy the upload"]
        /\ req[r].response = req[r].result
        /\ Join("processed", SrtFilename(req[r].job_id)) \in WrittenBy(r)

\* C8: whatever the interleaving, and also when requests upload the same
\* file name, every job has a job identifier of its own, the files it
\* writes under processed/ carry that identifier, and no path is written by
\* two jobs or read by a job that did not write it.
C8_JobsDoNotCollide ==
    /\ \A r1, r2 \in Requests :
        (r1 # r2 /\ req[r1].job_id # <<>>) => req[r1].job_id # req[r2].job_id
    /\ \A path \in DOMAIN disk : Cardinality(disk[path].writers) = 1
    /\ \A r \in Requests : \A path \in WrittenBy(r) :
        path[1] = "processed" =>
            SubSeq(path, 3, 2 + Len(req[r].job_id)) = req[r].job_id
    /\ \A rd \in reads :
        /\ disk[rd.path].writers = {rd.reader}
        /\ rd.content = <<"upload", rd.reader>>

\* C8's case: two jobs that uploaded the same file name both succeeded
C8_Witness ==
    \E r1, r2 \in Requests :
        /\ r1 # r2
        /\ req[r1].file = req[r2].file
        /\ JobDone(r1) /\ req[r1].result.success
        /\ JobDone(r2) /\ req[r2].result.success
        /\ Cardinality(WrittenBy(r1) \cup WrittenBy(r2)) = 6

----------------------------------------------------------------------------
(* Specifications *)

Init == TrInit /\ SrtInit /\ FsInit /\ WebInit

SpecTranslator == Init /\ [][TrNext]_vars

SpecSerializer == Init /\ [][SrtNext]_vars

SpecFiles == Init /\ [][FsNext]_vars

SpecUpload == Init /\ [][UploadNext]_vars

SpecJobs == Init /\ [][JobsNext]_vars

====
